---- MODULE Spec2Model ----
(***************************************************************************)
(* Model of synapse/config/cache.py: the process-wide cache registry       *)
(* (_CACHES), the installed resize function (_ENSURE_CORRECT_CACHE_SIZING),*)
(* the process-wide default factor (DEFAULT_CACHE_SIZE_FACTOR) and          *)
(* CacheConfig.read_config / CacheConfig._reset / add_resizable_cache.     *)
(*                                                                         *)
(* Representation.                                                          *)
(*  - A Python string is a tuple of one-character strings.                 *)
(*  - A Python value is a record [kind, num, size, items]: kind is the      *)
(*    Python type; num is the magnitude of an int, float or bool in tenths  *)
(*    (0.5 is 5, 2 is 20); size is the length of a str or list (their       *)
(*    content is never read by this file, only their type and truth        *)
(*    value); items is the content of a dict.                               *)
(*  - A Python dict is a tuple of <<key, value>> pairs with distinct keys,  *)
(*    in insertion order (dicts iterate in insertion order).               *)
(*  - read_config's parse_size of event_cache_size belongs to _base and    *)
(*    takes no part in the sizing; it is left out.                          *)
(*                                                                         *)
(* Specifications.                                                          *)
(*  - Spec: the three operations, each running from call to return, with    *)
(*    resize callbacks that only take their factor.                         *)
(*  - SpecRace: add_resizable_cache and a read_config that passes           *)
(*    validation on two threads, line by line.                              *)
(*  - SpecReentrant: the three operations with a resize callback that      *)
(*    calls add_resizable_cache itself.                                     *)
(***************************************************************************)
EXTENDS Integers, Sequences, FiniteSets, TLC

\* ------------------------------------------------------------ bounds
\* Largest number of entries of a caches.per_cache_factors mapping.
MaxFileKeys == 2

\* ------------------------------------------------------------ values
Val(k, n, s, it) == [kind |-> k, num |-> n, size |-> s, items |-> it]
PyInt(n)   == Val("int", 10 * n, 0, <<>>)
PyFloat(t) == Val("float", t, 0, <<>>)
PyBool(b)  == Val("bool", IF b THEN 10 ELSE 0, 0, <<>>)
PyStr(len) == Val("str", 0, len, <<>>)
PyList(len) == Val("list", 0, len, <<>>)
PyDict(it) == Val("dict", 0, 0, it)
PyNone     == Val("none", 0, 0, <<>>)
\* The key is missing from the mapping (dict.get falls back to its default).
Absent     == Val("absent", 0, 0, <<>>)

\* isinstance(v, (int, float)); bool is a subclass of int.
IsNumber(v) == v.kind \in {"int", "float", "bool"}
\* isinstance(v, dict)
IsDict(v) == v.kind = "dict"
\* bool(v), as the `or` of line 94 evaluates it.
Truthy(v) ==
  CASE v.kind \in {"int", "float", "bool"} -> v.num # 0
    [] v.kind \in {"str", "list"} -> v.size > 0
    [] v.kind = "dict" -> Len(v.items) > 0
    [] OTHER -> FALSE

\* ------------------------------------------------------------ strings
UpperCase == <<"A", "B", "C", "D", "E", "F", "G", "H", "I", "J", "K", "L", "M",
               "N", "O", "P", "Q", "R", "S", "T", "U", "V", "W", "X", "Y", "Z">>
LowerCase == <<"a", "b", "c", "d", "e", "f", "g", "h", "i", "j", "k", "l", "m",
               "n", "o", "p", "q", "r", "s", "t", "u", "v", "w", "x", "y", "z">>
LowerChar(c) ==
  IF \E i \in 1..26 : UpperCase[i] = c
  THEN LowerCase[CHOOSE i \in 1..26 : UpperCase[i] = c]
  ELSE c
\* str.lower()
Lower(s) == [i \in 1..Len(s) |-> LowerChar(s[i])]
\* str.startswith(p)
StartsWith(s, p) == Len(s) >= Len(p) /\ SubSeq(s, 1, Len(p)) = p
\* s[n:]
Slice(s, n) == SubSeq(s, n + 1, Len(s))

Digits == <<"0", "1", "2", "3", "4", "5", "6", "7", "8", "9">>
IsDigit(c) == \E i \in 1..10 : Digits[i] = c
DigitVal(c) == (CHOOSE i \in 1..10 : Digits[i] = c) - 1
RECURSIVE NatOf(_)
NatOf(s) == IF s = <<>> THEN 0 ELSE 10 * NatOf(SubSeq(s, 1, Len(s) - 1)) + DigitVal(s[Len(s)])
AllDigits(s) == s # <<>> /\ \A i \in 1..Len(s) : IsDigit(s[i])
\* float(s) on the decimal literals "d+" and "d+.d": whether it parses, and
\* its value in tenths. Any other text raises ValueError.
FloatParses(s) ==
  \/ AllDigits(s)
  \/ /\ Len(s) >= 3
     /\ s[Len(s) - 1] = "."
     /\ IsDigit(s[Len(s)])
     /\ AllDigits(SubSeq(s, 1, Len(s) - 2))
FloatOf(s) ==
  IF AllDigits(s)
  THEN PyFloat(10 * NatOf(s))
  ELSE PyFloat(10 * NatOf(SubSeq(s, 1, Len(s) - 2)) + DigitVal(s[Len(s)]))

\* ------------------------------------------------------------ dicts
DictKeys(d) == {d[i][1] : i \in 1..Len(d)}
DictHas(d, k) == k \in DictKeys(d)
DictIndex(d, k) == CHOOSE i \in 1..Len(d) : d[i][1] = k
\* d[k]
DictAt(d, k) == d[DictIndex(d, k)][2]
\* d.get(k, default)
DictGet(d, k, default) == IF DictHas(d, k) THEN DictAt(d, k) ELSE default
\* d.setdefault(k, v) in place of d[k] = v: an existing key keeps its value.
DictSetKeepFirst(d, k, v) == IF DictHas(d, k) THEN d ELSE Append(d, <<k, v>>)
\* d[k] = v: an existing key keeps its place, a new key goes last.
DictSet(d, k, v) ==
  IF DictHas(d, k)
  THEN [d EXCEPT ![DictIndex(d, k)] = <<k, v>>]
  ELSE Append(d, <<k, v>>)
\* d.update(e)
RECURSIVE DictUpdate(_, _)
DictUpdate(d, e) ==
  IF e = <<>> THEN d
  ELSE DictUpdate(DictSet(d, e[1][1], e[1][2]), Tail(e))

\* ------------------------------------------------------------ program constants
\* "SYNAPSE_CACHE_FACTOR"
_CACHE_PREFIX == <<"S", "Y", "N", "A", "P", "S", "E", "_", "C", "A", "C", "H", "E",
                   "_", "F", "A", "C", "T", "O", "R">>
\* The literal 0.5 of os.environ.get(_CACHE_PREFIX, 0.5), in tenths.
HardDefaultTenths == 5

\* ------------------------------------------------------------ inputs
EnvKey(name) == _CACHE_PREFIX \o <<"_">> \o name
\* The environments the process may run in: no variable of the prefix; the
\* bare prefix, a variable that extends the prefix without the underscore and
\* two overrides for cache "a" (one upper-case, as environments spell it, one
\* lower-case; POSIX variable names are case-sensitive); an override whose
\* value is no number.
EnvChoices ==
  { <<>>,
    << <<_CACHE_PREFIX, <<"1", ".", "5">> >>,
       <<_CACHE_PREFIX \o <<"S", "_", "B">>, <<"6">> >>,
       <<EnvKey(<<"A">>), <<"7">> >>,
       <<EnvKey(<<"a">>), <<"8">> >> >>,
    << <<EnvKey(<<"B">>), <<"x">> >> >> }

\* The registrations caches make: cache "a" under two spellings with two
\* callbacks, cache "b" with one.
Registrations == { <<<<"A">>, "cb1">>, <<<<"a">>, "cb2">>, <<<<"b">>, "cb3">> }

\* caches.global_factor: missing, 2, a string ("fast").
GlobalFactorChoices == {Absent, PyInt(2), PyStr(4)}
\* Entries a per_cache_factors mapping is built from.
FileEntries ==
  { <<<<"A">>, PyInt(3)>>, <<<<"a">>, PyInt(4)>>, <<<<"b">>, PyStr(1)>> }
RECURSIVE SeqsUpTo(_, _)
SeqsUpTo(S, n) ==
  IF n = 0 THEN {<<>>}
  ELSE LET shorter == SeqsUpTo(S, n - 1)
       IN shorter \cup {Append(q, x) : q \in shorter, x \in S}
FileDicts ==
  {d \in SeqsUpTo(FileEntries, MaxFileKeys) :
     \A i, j \in 1..Len(d) : i # j => d[i][1] # d[j][1]}
\* caches.per_cache_factors: missing, null, [], [1, 2, 3], or a mapping.
PerCacheChoices ==
  {Absent, PyNone, PyList(0), PyList(3)} \cup {PyDict(d) : d \in FileDicts}
\* The "caches" section of the parsed configuration. A global_factor that is
\* no number comes without per_cache_factors: line 81 raises before line 94
\* reads them.
Configs ==
  {c \in [global_factor : GlobalFactorChoices, per_cache_factors : PerCacheChoices] :
     IsNumber(c.global_factor) \/ c.global_factor = Absent \/ c.per_cache_factors = Absent}

\* ------------------------------------------------------------ state
VARIABLES
  environ,                        \* os.environ
  DEFAULT_CACHE_SIZE_FACTOR,      \* module global
  _CACHES,                        \* module global: lower-cased name -> callback
  _ENSURE_CORRECT_CACHE_SIZING,   \* module global: "None" or "ensure_cache_sizes"
  self_global_factor,             \* self.global_factor of the CacheConfig the
  self_cache_factors,             \*   installed closure captured, and its cache_factors
  calls,                          \* history: callback invocations of the last operation
  committed,                      \* history: global_factor and cache_factors the most
                                  \*   recent successful load resolved
  race,                           \* two threads inside add_resizable_cache and
                                  \*   read_config: their arguments, locals and lines
  lastOp                          \* history: the last operation, its inputs and outcome,
                                  \*   and in `note` what it met: the callback a
                                  \*   registration overwrote, "loaded" for a reset that
                                  \*   removed an installed function, "reentered" when a
                                  \*   callback registered a cache (else "")

vars == <<environ, DEFAULT_CACHE_SIZE_FACTOR, _CACHES, _ENSURE_CORRECT_CACHE_SIZING,
          self_global_factor, self_cache_factors, calls, committed, race, lastOp>>

NoConfig == [global_factor |-> Absent, per_cache_factors |-> Absent]
Op(op, name, cb, same, cfg, error, errkey) ==
  [op |-> op, name |-> name, cb |-> cb, same |-> same, cfg |-> cfg,
   error |-> error, errkey |-> errkey, note |-> ""]
NoCommit == [loaded |-> FALSE, global_factor |-> Absent, cache_factors |-> <<>>]

\* float(os.environ.get(_CACHE_PREFIX, 0.5))
EnvDefault(env) ==
  IF DictHas(env, _CACHE_PREFIX)
  THEN FloatOf(DictAt(env, _CACHE_PREFIX))
  ELSE PyFloat(HardDefaultTenths)

\* The function object line 49 fetched from the slot: whether it is the
\* closure of the CacheConfig the concurrent load runs on, and else the
\* attributes of the CacheConfig it captured.
NoFunction == [ofLoad |-> FALSE, global_factor |-> Absent, cache_factors |-> <<>>]
\* No two threads are running: every operation runs from call to return.
NoRace ==
  [phase |-> "none", name |-> <<>>, cb |-> "", cfg |-> NoConfig, same |-> FALSE,
   lock |-> FALSE, pcReg |-> "", pcLoad |-> "", fn |-> NoFunction,
   global_factor |-> Absent, cache_factors |-> <<>>, before |-> Absent]

\* The state after import of the module. An environment whose bare prefix
\* variable is no number stops the import and is no state of the program.
Imported ==
  /\ environ \in {e \in EnvChoices :
                    DictHas(e, _CACHE_PREFIX) => FloatParses(DictAt(e, _CACHE_PREFIX))}
  /\ DEFAULT_CACHE_SIZE_FACTOR = EnvDefault(environ)
  /\ _CACHES = <<>>
  /\ _ENSURE_CORRECT_CACHE_SIZING = "None"
  /\ self_global_factor = Absent
  /\ self_cache_factors = <<>>
  /\ calls = <<>>
  /\ committed = NoCommit
  /\ lastOp = Op("import", <<>>, "", FALSE, NoConfig, "", <<>>)

Init == Imported /\ race = NoRace

\* ------------------------------------------------------------ read_config, step by step
\* cache_config.get(key, default), on the "caches" section.
ConfigGet(v, default) == IF v = Absent THEN default ELSE v

\* Lines 77-79 reading the process-wide default whatever the section holds.
ResolvedGlobalFactorDefaultOnly(cfg) == DEFAULT_CACHE_SIZE_FACTOR

\* Lines 77-79 falling back on the environment's seed in place of the
\* process-wide default.
ResolvedGlobalFactorSeed(cfg) == ConfigGet(cfg.global_factor, EnvDefault(environ))

\* Lines 77-79: self.global_factor = cache_config.get("global_factor", DEFAULT...).
ResolvedGlobalFactor(cfg) == ConfigGet(cfg.global_factor, DEFAULT_CACHE_SIZE_FACTOR)

\* Line 80 testing the truth value (`if not self.global_factor`) in place of the type.
GlobalFactorValidTruthy(g) == Truthy(g)

\* Line 80: the isinstance test that guards the raise of line 81.
GlobalFactorValid(g) == IsNumber(g)

\* Lines 88-92 testing key.startswith(_CACHE_PREFIX), without the "_".
RECURSIVE EnvironFactorsBarePrefix(_, _)
EnvironFactorsBarePrefix(env, acc) ==
  IF env = <<>> THEN [ok |-> TRUE, d |-> acc]
  ELSE LET key == env[1][1]
           val == env[1][2]
       IN IF StartsWith(key, _CACHE_PREFIX)
          THEN IF FloatParses(val)
               THEN EnvironFactorsBarePrefix(Tail(env),
                      DictSet(acc, Lower(Slice(key, Len(_CACHE_PREFIX) + 1)), FloatOf(val)))
               ELSE [ok |-> FALSE, d |-> acc]
          ELSE EnvironFactorsBarePrefix(Tail(env), acc)

\* Lines 88-92: the dict comprehension over self._environ.items(). float(val)
\* raises at the first matching variable whose value is no number.
RECURSIVE EnvironFactors(_, _)
EnvironFactors(env, acc) ==
  IF env = <<>> THEN [ok |-> TRUE, d |-> acc]
  ELSE LET key == env[1][1]
           val == env[1][2]
       IN IF StartsWith(key, _CACHE_PREFIX \o <<"_">>)
          THEN IF FloatParses(val)
               THEN EnvironFactors(Tail(env),
                      DictSet(acc, Lower(Slice(key, Len(_CACHE_PREFIX) + 1)), FloatOf(val)))
               ELSE [ok |-> FALSE, d |-> acc]
          ELSE EnvironFactors(Tail(env), acc)

\* Line 94: cache_config.get("per_cache_factors", {}) or {}, on the value pcf
\* the section holds under the key (Absent: none).
IndividualFactorsConfig(pcf) ==
  LET got == ConfigGet(pcf, PyDict(<<>>))
  IN IF Truthy(got) THEN got ELSE PyDict(<<>>)

\* Line 98 with the two sources swapped: the environment overwrites the file.
MergedFactorsEnvironLast(envd, filed) == DictUpdate(filed, envd)

\* Line 98: individual_factors.update(individual_factors_config).
MergedFactors(envd, filed) == DictUpdate(envd, filed)

\* Lines 102-107: the loop filling self.cache_factors; it raises at the first
\* factor that is no number, with the entries before it already stored.
RECURSIVE FactorLoop(_, _)
FactorLoop(items, acc) ==
  IF items = <<>> THEN [ok |-> TRUE, d |-> acc, bad |-> <<>>]
  ELSE LET cache == items[1][1]
           factor == items[1][2]
       IN IF ~IsNumber(factor)
          THEN [ok |-> FALSE, d |-> acc, bad |-> Lower(cache)]
          ELSE FactorLoop(Tail(items), DictSet(acc, Lower(cache), factor))

\* ensure_cache_sizes with the per-cache lookup dropped: every cache gets the
\* global factor.
ensure_cache_sizes_global_only(caches, global_factor, cache_factors) ==
  [i \in 1..Len(caches) |->
     [name |-> caches[i][1], cb |-> caches[i][2], factor |-> global_factor]]

\* Lines 110-113: ensure_cache_sizes, reading self.cache_factors and
\* self.global_factor when it runs; the invocations it makes, in order.
ensure_cache_sizes(caches, global_factor, cache_factors) ==
  [i \in 1..Len(caches) |->
     [name |-> caches[i][1], cb |-> caches[i][2],
      factor |-> DictGet(cache_factors, caches[i][1], global_factor)]]

\* Lines 88-107 depend on the environment and on per_cache_factors alone: their
\* results, computed once for each environment and each per_cache_factors.
EnvironResult == [e \in EnvChoices |-> EnvironFactors(e, <<>>)]
LoopTable ==
  [e \in EnvChoices |-> [pcf \in PerCacheChoices |->
     IF IsDict(IndividualFactorsConfig(pcf))
     THEN FactorLoop(MergedFactors(EnvironResult[e].d, IndividualFactorsConfig(pcf).items), <<>>)
     ELSE [ok |-> FALSE, d |-> <<>>, bad |-> <<>>]]]

\* self.cache_factors after the loop of lines 100-107 ran (to its end or to its raise).
LoopResult(cfg) == LoopTable[environ][cfg.per_cache_factors]

\* How far a load gets: the line that raises, or "ok".
LoadStage(cfg) ==
  IF ~GlobalFactorValid(ResolvedGlobalFactor(cfg)) THEN "line81"
  ELSE IF ~EnvironResult[environ].ok THEN "line89"
  ELSE IF ~IsDict(IndividualFactorsConfig(cfg.per_cache_factors)) THEN "line96"
  ELSE IF ~LoopResult(cfg).ok THEN "line104"
  ELSE "ok"

\* `same`: read_config runs on the CacheConfig whose closure is installed; else
\* on another instance, whose attributes nothing reads until a load of it
\* succeeds and installs its closure (that load assigns both attributes first).
SelfGlobalAfter(same, g) == IF same THEN g ELSE self_global_factor
SelfFactorsAfter(same, d) == IF same THEN d ELSE self_cache_factors

\* Line 81: raise ConfigError("caches.global_factor must be a number.").
LoadFailsGlobalFactor(cfg, same) ==
  /\ self_global_factor' = SelfGlobalAfter(same, ResolvedGlobalFactor(cfg))
  /\ calls' = <<>>
  /\ lastOp' = Op("load", <<>>, "", same, cfg, "caches.global_factor must be a number.", <<>>)
  /\ UNCHANGED <<environ, DEFAULT_CACHE_SIZE_FACTOR, _CACHES, _ENSURE_CORRECT_CACHE_SIZING,
                 self_cache_factors, committed>>

\* Line 89: float(val) raises ValueError.
LoadFailsEnviron(cfg, same) ==
  /\ self_global_factor' = SelfGlobalAfter(same, ResolvedGlobalFactor(cfg))
  /\ DEFAULT_CACHE_SIZE_FACTOR' = ResolvedGlobalFactor(cfg)
  /\ calls' = <<>>
  /\ lastOp' = Op("load", <<>>, "", same, cfg, "ValueError", <<>>)
  /\ UNCHANGED <<environ, _CACHES, _ENSURE_CORRECT_CACHE_SIZING, self_cache_factors, committed>>

\* Line 96: raise ConfigError("caches.per_cache_factors must be a dictionary").
LoadFailsShape(cfg, same) ==
  /\ self_global_factor' = SelfGlobalAfter(same, ResolvedGlobalFactor(cfg))
  /\ DEFAULT_CACHE_SIZE_FACTOR' = ResolvedGlobalFactor(cfg)
  /\ calls' = <<>>
  /\ lastOp' = Op("load", <<>>, "", same, cfg, "caches.per_cache_factors must be a dictionary", <<>>)
  /\ UNCHANGED <<environ, _CACHES, _ENSURE_CORRECT_CACHE_SIZING, self_cache_factors, committed>>

\* read_config installing its closure (line 115) before the loop of lines
\* 102-107, so that the raise of line 104 leaves it installed.
LoadFailsFactorInstalled(cfg, same) ==
  /\ self_global_factor' = ResolvedGlobalFactor(cfg)
  /\ DEFAULT_CACHE_SIZE_FACTOR' = ResolvedGlobalFactor(cfg)
  /\ self_cache_factors' = LoopResult(cfg).d
  /\ _ENSURE_CORRECT_CACHE_SIZING' = "ensure_cache_sizes"
  /\ calls' = <<>>
  /\ lastOp' = Op("load", <<>>, "", same, cfg, "caches.per_cache_factors.%s must be a number",
                  LoopResult(cfg).bad)
  /\ UNCHANGED <<environ, _CACHES, committed>>

\* Line 104: raise ConfigError("caches.per_cache_factors.%s must be a number").
LoadFailsFactor(cfg, same) ==
  /\ self_global_factor' = SelfGlobalAfter(same, ResolvedGlobalFactor(cfg))
  /\ DEFAULT_CACHE_SIZE_FACTOR' = ResolvedGlobalFactor(cfg)
  /\ self_cache_factors' = SelfFactorsAfter(same, LoopResult(cfg).d)
  /\ calls' = <<>>
  /\ lastOp' = Op("load", <<>>, "", same, cfg, "caches.per_cache_factors.%s must be a number",
                  LoopResult(cfg).bad)
  /\ UNCHANGED <<environ, _CACHES, _ENSURE_CORRECT_CACHE_SIZING, committed>>

\* Lines 115-116: the load reaches its end, installs its closure and runs it.
LoadSucceeds(cfg, same) ==
  /\ self_global_factor' = ResolvedGlobalFactor(cfg)
  /\ DEFAULT_CACHE_SIZE_FACTOR' = ResolvedGlobalFactor(cfg)
  /\ self_cache_factors' = LoopResult(cfg).d
  /\ _ENSURE_CORRECT_CACHE_SIZING' = "ensure_cache_sizes"
  /\ calls' = ensure_cache_sizes(_CACHES, self_global_factor', self_cache_factors')
  /\ committed' = [loaded |-> TRUE, global_factor |-> self_global_factor',
                   cache_factors |-> self_cache_factors']
  /\ lastOp' = Op("load", <<>>, "", same, cfg, "", <<>>)
  /\ UNCHANGED <<environ, _CACHES>>

\* CacheConfig.read_config(config).
read_config ==
  \E cfg \in Configs :
    \E same \in {s \in BOOLEAN : s => _ENSURE_CORRECT_CACHE_SIZING # "None"} :
      LET stage == LoadStage(cfg) IN
      /\ \/ stage = "line81" /\ LoadFailsGlobalFactor(cfg, same)
         \/ stage = "line89" /\ LoadFailsEnviron(cfg, same)
         \/ stage = "line96" /\ LoadFailsShape(cfg, same)
         \/ stage = "line104" /\ LoadFailsFactor(cfg, same)
         \/ stage = "ok" /\ LoadSucceeds(cfg, same)
      /\ UNCHANGED race

\* ------------------------------------------------------------ add_resizable_cache
\* add_resizable_cache sizing the registry without the test of line 48, with
\* the process-wide default when no load has installed a function.
RunInstalledUnguarded(caches) ==
  IF _ENSURE_CORRECT_CACHE_SIZING # "None"
  THEN ensure_cache_sizes(caches, self_global_factor, self_cache_factors)
  ELSE ensure_cache_sizes(caches, DEFAULT_CACHE_SIZE_FACTOR, <<>>)

\* The call of line 49, when line 48 finds a function installed.
RunInstalled(caches) ==
  IF _ENSURE_CORRECT_CACHE_SIZING # "None"
  THEN ensure_cache_sizes(caches, self_global_factor, self_cache_factors)
  ELSE <<>>

add_resizable_cache ==
  \E reg \in Registrations :
    LET cache_name == reg[1]
        cache_resize_callback == reg[2]
    IN
    /\ _CACHES' = DictSet(_CACHES, Lower(cache_name), cache_resize_callback)
    /\ calls' = RunInstalled(_CACHES')
    /\ lastOp' = [Op("register", cache_name, cache_resize_callback, FALSE, NoConfig, "", <<>>)
                    EXCEPT !.note = DictGet(_CACHES, Lower(cache_name), "")]
    /\ UNCHANGED <<environ, DEFAULT_CACHE_SIZE_FACTOR, _ENSURE_CORRECT_CACHE_SIZING,
                   self_global_factor, self_cache_factors, committed, race>>

\* ------------------------------------------------------------ CacheConfig._reset
\* _reset without line 67: the registry keeps its entries.
reset_without_clear ==
  /\ DEFAULT_CACHE_SIZE_FACTOR' = EnvDefault(environ)
  /\ _ENSURE_CORRECT_CACHE_SIZING' = "None"
  /\ self_global_factor' = Absent
  /\ self_cache_factors' = <<>>
  /\ calls' = <<>>
  /\ committed' = NoCommit
  /\ lastOp' = [Op("reset", <<>>, "", FALSE, NoConfig, "", <<>>)
                  EXCEPT !.note = IF _ENSURE_CORRECT_CACHE_SIZING # "None" /\ _CACHES # <<>>
                                  THEN "loaded" ELSE ""]
  /\ UNCHANGED <<environ, _CACHES, race>>

\* With the closure gone nothing reads the captured instance any more.
reset ==
  /\ DEFAULT_CACHE_SIZE_FACTOR' = EnvDefault(environ)
  /\ _ENSURE_CORRECT_CACHE_SIZING' = "None"
  /\ _CACHES' = <<>>
  /\ self_global_factor' = Absent
  /\ self_cache_factors' = <<>>
  /\ calls' = <<>>
  /\ committed' = NoCommit
  /\ lastOp' = [Op("reset", <<>>, "", FALSE, NoConfig, "", <<>>)
                  EXCEPT !.note = IF _ENSURE_CORRECT_CACHE_SIZING # "None" /\ _CACHES # <<>>
                                  THEN "loaded" ELSE ""]
  /\ UNCHANGED <<environ, race>>

Next == read_config \/ add_resizable_cache \/ reset

Spec == Init /\ [][Next]_vars

\* ------------------------------------------------------------ properties
\* The invocations of the last operation that went to the cache `n`.
CallsTo(n) == {i \in 1..Len(calls) : calls[i].name = n}
\* The factor a configuration (global factor g, per-cache factors d) gives cache n.
EffectiveFactor(g, d, n) == IF DictHas(d, n) THEN DictAt(d, n) ELSE g
LoadSucceeded == lastOp.op = "load" /\ lastOp.error = ""
LoadFailed == lastOp.op = "load" /\ lastOp.error # ""
ValidationErrors ==
  {"caches.global_factor must be a number.",
   "caches.per_cache_factors must be a dictionary",
   "caches.per_cache_factors.%s must be a number"}

\* C1: when a load has just succeeded, every name of the registry was invoked
\* exactly once by it (and nothing else was), with per_cache_factors[name] of
\* the configuration the load resolved if it has the name, else with its
\* global_factor.
C1_LoadSizesEveryCacheOnce ==
  LoadSucceeded =>
    /\ Len(calls) = Len(_CACHES)
    /\ \A n \in DictKeys(_CACHES) :
         /\ Cardinality(CallsTo(n)) = 1
         /\ \A i \in CallsTo(n) :
              /\ calls[i].cb = DictAt(_CACHES, n)
              /\ calls[i].factor =
                   EffectiveFactor(committed.global_factor, committed.cache_factors, n)

\* C1 witness: a successful load over two registered caches, one with a
\* per-cache factor and one without.
C1_Witness ==
  /\ LoadSucceeded
  /\ Len(_CACHES) = 2
  /\ \E n, m \in DictKeys(_CACHES) :
       DictHas(committed.cache_factors, n) /\ ~DictHas(committed.cache_factors, m)

\* C3: while no load has succeeded since the import or the last reset, no
\* operation (registration or failed load) invokes any callback.
C3_NoCallBeforeFirstLoad == ~committed.loaded => calls = <<>>

\* C3 witness: caches are registered, a load has just failed, none succeeded.
C3_Witness ==
  /\ ~committed.loaded
  /\ LoadFailed
  /\ Len(_CACHES) = 2

\* The registered cache the last registration named.
Registered == Lower(lastOp.name)
RegisteredAfterLoad == lastOp.op = "register" /\ committed.loaded

\* C2: a registration made after a successful load (no reset since) invokes
\* the registered callback exactly once, with the factor the most recent
\* successful load gives the lower-cased name.
C2_RegisterSizesNewCache ==
  RegisteredAfterLoad =>
    /\ Cardinality(CallsTo(Registered)) = 1
    /\ \A i \in CallsTo(Registered) :
         /\ calls[i].cb = lastOp.cb
         /\ calls[i].factor =
              EffectiveFactor(committed.global_factor, committed.cache_factors, Registered)

\* The entries of the per_cache_factors mapping the last load was given.
FileItems == lastOp.cfg.per_cache_factors.items
\* The values the file gives under keys that lower-case to n.
FileValues(n) == {FileItems[j][2] : j \in {k \in 1..Len(FileItems) : Lower(FileItems[k][1]) = n}}
\* The environment holds a variable <PREFIX>_<NAME> whose NAME lower-cases to n.
EnvironOverrides(n) ==
  \E i \in 1..Len(environ) :
    /\ Len(environ[i][1]) > Len(_CACHE_PREFIX)
    /\ SubSeq(environ[i][1], 1, Len(_CACHE_PREFIX)) = _CACHE_PREFIX
    /\ environ[i][1][Len(_CACHE_PREFIX) + 1] = "_"
    /\ Lower(SubSeq(environ[i][1], Len(_CACHE_PREFIX) + 2, Len(environ[i][1]))) = n

\* C4 as stated: after a successful load a registered cache n receives exactly
\* v for every file key that lower-cases to n and has the value v.
C4_EveryFileKeyWins ==
  LoadSucceeded =>
    \A n \in DictKeys(_CACHES) : \A v \in FileValues(n) :
      CallsTo(n) # {} /\ \A i \in CallsTo(n) : calls[i].factor = v

\* C4 amended: after a successful load a registered cache n for which the file
\* has keys that lower-case to n receives the value of one of these keys
\* (so exactly v when they all carry v), whatever the global factor and the
\* environment are.
C4_FileOverrideWins ==
  LoadSucceeded =>
    \A n \in DictKeys(_CACHES) :
      FileValues(n) # {} =>
        CallsTo(n) # {} /\ \A i \in CallsTo(n) : calls[i].factor \in FileValues(n)

\* C4 witness: a successful load whose file spells the key "A", for the
\* registered cache "a" that the environment overrides too, with a global
\* factor given.
C4_Witness ==
  /\ LoadSucceeded
  /\ DictHas(_CACHES, <<"a">>)
  /\ DictKeys(FileItems) = {<<"A">>}
  /\ EnvironOverrides(<<"a">>)
  /\ lastOp.cfg.global_factor = PyInt(2)

\* C5: after a successful load whose configuration gives a numeric
\* global_factor g, every registered cache with no per-cache override in the
\* file and none in the environment receives exactly g.
C5_GlobalFactorReachesPlainCaches ==
  (LoadSucceeded /\ lastOp.cfg.global_factor.kind \in {"int", "float"}) =>
    \A n \in DictKeys(_CACHES) :
      (FileValues(n) = {} /\ ~EnvironOverrides(n)) =>
        CallsTo(n) # {} /\ \A i \in CallsTo(n) : calls[i].factor = lastOp.cfg.global_factor

\* C5 witness: such a load in an environment that sets the bare prefix and an
\* override for another cache, with the plain cache "b" registered.
C5_Witness ==
  /\ LoadSucceeded
  /\ lastOp.cfg.global_factor = PyInt(2)
  /\ DictHas(_CACHES, <<"b">>)
  /\ FileValues(<<"b">>) = {}
  /\ ~EnvironOverrides(<<"b">>)
  /\ EnvironOverrides(<<"a">>)
  /\ DictHas(environ, _CACHE_PREFIX)

\* The value is present and of a type that is no number.
NotANumber(v) == v.kind \in {"str", "list", "dict", "none"}

\* C6: a load whose global_factor is present and no number fails with the
\* error that names caches.global_factor, and leaves the process-wide default
\* factor, the registry and the installed function as they were.
C6_NonNumericGlobalFactorFails ==
  [][(lastOp'.op = "load" /\ NotANumber(lastOp'.cfg.global_factor)) =>
       /\ lastOp'.error = "caches.global_factor must be a number."
       /\ DEFAULT_CACHE_SIZE_FACTOR' = DEFAULT_CACHE_SIZE_FACTOR
       /\ _CACHES' = _CACHES
       /\ _ENSURE_CORRECT_CACHE_SIZING' = _ENSURE_CORRECT_CACHE_SIZING]_vars

\* C6 witness: such a load has just failed with caches registered and a
\* function installed by an earlier load that gave its own global factor.
C6_Witness ==
  /\ lastOp.op = "load"
  /\ lastOp.cfg.global_factor = PyStr(4)
  /\ lastOp.error = "caches.global_factor must be a number."
  /\ _ENSURE_CORRECT_CACHE_SIZING = "ensure_cache_sizes"
  /\ DEFAULT_CACHE_SIZE_FACTOR = PyInt(2)
  /\ Len(_CACHES) = 2

\* C7: a load whose per_cache_factors is present and neither a mapping nor
\* null fails.
C7_NonMappingPerCacheFails ==
  (lastOp.op = "load" /\ lastOp.cfg.per_cache_factors.kind \notin {"absent", "none", "dict"}) =>
    lastOp.error # ""

\* C8: a load that fails validation invokes no callback and leaves the
\* registry and the installed-function slot as they were.
C8_FailedLoadTouchesNoCache ==
  [][(lastOp'.op = "load" /\ lastOp'.error \in ValidationErrors) =>
       /\ calls' = <<>>
       /\ _CACHES' = _CACHES
       /\ _ENSURE_CORRECT_CACHE_SIZING' = _ENSURE_CORRECT_CACHE_SIZING]_vars

\* C8 witness: a load has just failed on a per-cache value with caches
\* registered and no function installed.
C8_Witness ==
  /\ lastOp.op = "load"
  /\ lastOp.error = "caches.per_cache_factors.%s must be a number"
  /\ Len(_CACHES) = 2
  /\ _ENSURE_CORRECT_CACHE_SIZING = "None"

\* C9: every invocation a registration makes after a successful load uses the
\* global_factor and per_cache_factors of the most recent successful load,
\* whatever loads failed since.
C9_NoPartialConfigAdopted ==
  RegisteredAfterLoad =>
    \A i \in 1..Len(calls) :
      calls[i].factor =
        EffectiveFactor(committed.global_factor, committed.cache_factors, calls[i].name)

\* C10: a load that fails validation leaves the process-wide default factor
\* at its value before the load.
C10_FailedLoadKeepsDefault ==
  [][(lastOp'.op = "load" /\ lastOp'.error \in ValidationErrors) =>
       DEFAULT_CACHE_SIZE_FACTOR' = DEFAULT_CACHE_SIZE_FACTOR]_vars

\* C11: the registry holds one entry for each lower-cased name; after a
\* registration that entry is the callback just registered (the last writer);
\* and every invocation of any operation goes to the callback the registry
\* holds for the name at that time, never to one that was overwritten.
C11_LastWriterWins ==
  /\ \A i, j \in 1..Len(_CACHES) : _CACHES[i][1] = _CACHES[j][1] => i = j
  /\ lastOp.op = "register" =>
       /\ DictHas(_CACHES, Registered)
       /\ DictAt(_CACHES, Registered) = lastOp.cb
       /\ \A i \in CallsTo(Registered) : calls[i].cb = lastOp.cb
  /\ \A i \in 1..Len(calls) :
       /\ DictHas(_CACHES, calls[i].name)
       /\ calls[i].cb = DictAt(_CACHES, calls[i].name)

\* C11 witness: "a" was registered with cb2 over the entry cb1 that "A" had
\* made, with a function installed, and the reload invoked cb2.
C11_Witness ==
  /\ lastOp.op = "register"
  /\ lastOp.name = <<"a">>
  /\ lastOp.cb = "cb2"
  /\ lastOp.note = "cb1"
  /\ \E i \in 1..Len(calls) : calls[i].cb = "cb2"

\* C12: right after a reset the registry is empty, no function is installed
\* and nothing was invoked; while no function is installed no operation
\* invokes a callback; and every invocation goes to an entry of the registry,
\* which holds only what was registered since the reset emptied it.
C12_ResetForgetsEverything ==
  /\ lastOp.op = "reset" =>
       _CACHES = <<>> /\ _ENSURE_CORRECT_CACHE_SIZING = "None" /\ calls = <<>>
  /\ _ENSURE_CORRECT_CACHE_SIZING = "None" => calls = <<>>
  /\ \A i \in 1..Len(calls) :
       \E j \in 1..Len(_CACHES) : _CACHES[j] = <<calls[i].name, calls[i].cb>>

\* C12 witness: a reset has just removed an installed function and a
\* non-empty registry.
C12_Witness ==
  /\ lastOp.op = "reset"
  /\ lastOp.note = "loaded"

\* The seed of the process-wide default: the bare prefix variable of the
\* environment as a float, 0.5 when the variable is unset.
EnvironSeed ==
  IF \E i \in 1..Len(environ) : environ[i][1] = _CACHE_PREFIX
  THEN FloatOf(environ[CHOOSE i \in 1..Len(environ) : environ[i][1] = _CACHE_PREFIX][2])
  ELSE PyFloat(5)

\* C13: a successful load leaves the process-wide default at the global factor
\* g it resolved; a successful load whose configuration has no
\* caches.global_factor resolves the default as it stood before the load, not
\* the environment's seed; a registration leaves the default alone; a reset
\* puts the default back to the environment's seed, 0.5 when the bare prefix
\* variable is unset.
C13_DefaultIsSticky ==
  [][/\ (lastOp'.op = "load" /\ lastOp'.error = "") =>
          /\ DEFAULT_CACHE_SIZE_FACTOR' = committed'.global_factor
          /\ lastOp'.cfg.global_factor = Absent =>
               /\ committed'.global_factor = DEFAULT_CACHE_SIZE_FACTOR
               /\ \A i \in 1..Len(calls') :
                    ~DictHas(committed'.cache_factors, calls'[i].name) =>
                      calls'[i].factor = DEFAULT_CACHE_SIZE_FACTOR
     /\ lastOp'.op = "register" => DEFAULT_CACHE_SIZE_FACTOR' = DEFAULT_CACHE_SIZE_FACTOR
     /\ lastOp'.op = "reset" => DEFAULT_CACHE_SIZE_FACTOR' = EnvironSeed]_vars

\* C13 witness: a load without caches.global_factor has just succeeded with
\* the 2 an earlier load had left as the default, in an environment whose seed
\* is 1.5, and a plain cache received that 2.
C13_Witness ==
  /\ LoadSucceeded
  /\ lastOp.cfg.global_factor = Absent
  /\ DEFAULT_CACHE_SIZE_FACTOR = PyInt(2)
  /\ EnvironSeed = PyFloat(15)
  /\ \E i \in 1..Len(calls) : calls[i].name = <<"b">> /\ calls[i].factor = PyInt(2)

\* C14: a registration made while a function is installed invokes every
\* callback of the registry exactly once, each with the factor the most recent
\* successful load gives its cache (the factor that load passed it).
C14_RegisterResyncsRegistry ==
  (lastOp.op = "register" /\ _ENSURE_CORRECT_CACHE_SIZING # "None") =>
    /\ Len(calls) = Len(_CACHES)
    /\ \A j \in 1..Len(_CACHES) :
         \E i \in 1..Len(calls) :
           /\ calls[i].name = _CACHES[j][1]
           /\ calls[i].cb = _CACHES[j][2]
           /\ calls[i].factor =
                EffectiveFactor(committed.global_factor, committed.cache_factors, _CACHES[j][1])
           /\ \A k \in 1..Len(calls) : calls[k].name = _CACHES[j][1] => k = i

\* C15: once a load has succeeded, every invocation made by that load or by a
\* later registration uses the factors of the most recent successful load,
\* not those of a load before it.
C15_LatestLoadDecides ==
  (committed.loaded /\ lastOp.op \in {"load", "register"}) =>
    \A i \in 1..Len(calls) :
      /\ DictHas(committed.cache_factors, calls[i].name) =>
           calls[i].factor = DictAt(committed.cache_factors, calls[i].name)
      /\ ~DictHas(committed.cache_factors, calls[i].name) =>
           calls[i].factor = committed.global_factor

\* The variables <PREFIX>_<NAME> of the environment whose NAME lower-cases to n.
EnvironVars(n) ==
  {i \in 1..Len(environ) :
     /\ Len(environ[i][1]) > Len(_CACHE_PREFIX)
     /\ SubSeq(environ[i][1], 1, Len(_CACHE_PREFIX)) = _CACHE_PREFIX
     /\ environ[i][1][Len(_CACHE_PREFIX) + 1] = "_"
     /\ Lower(SubSeq(environ[i][1], Len(_CACHE_PREFIX) + 2, Len(environ[i][1]))) = n}
\* The per-cache keys a successful load may hold: the lower-cased NAMEs of the
\* variables <PREFIX>_<NAME> and the lower-cased keys of the file.
OverrideSources(k) == EnvironVars(k) # {} \/ FileValues(k) # {}

\* C16 as stated: after a successful load a registered cache with no file
\* entry receives exactly v for every variable <PREFIX>_<NAME>=v whose NAME
\* lower-cases to its name; the bare prefix variable and variables that do not
\* start with <PREFIX>_ give no per-cache factor.
C16_EveryEnvironOverrideApplies ==
  LoadSucceeded =>
    /\ \A n \in DictKeys(_CACHES) :
         FileValues(n) = {} =>
           \A e \in EnvironVars(n) :
             CallsTo(n) # {} /\ \A i \in CallsTo(n) : calls[i].factor = FloatOf(environ[e][2])
    /\ \A k \in DictKeys(committed.cache_factors) : OverrideSources(k)

\* C16 amended: after a successful load a registered cache with no file entry
\* and with variables <PREFIX>_<NAME> whose NAME lower-cases to its name
\* receives the value, as a float, of one of these variables; a registered
\* cache with no file entry and no such variable receives the global factor;
\* and the per-cache factors hold no key that comes from the bare prefix
\* variable or from a variable that does not start with <PREFIX>_.
C16_EnvironOverrideApplies ==
  LoadSucceeded =>
    /\ \A n \in DictKeys(_CACHES) :
         FileValues(n) = {} =>
           /\ CallsTo(n) # {}
           /\ \A i \in CallsTo(n) :
                /\ EnvironVars(n) # {} =>
                     \E e \in EnvironVars(n) : calls[i].factor = FloatOf(environ[e][2])
                /\ EnvironVars(n) = {} => calls[i].factor = committed.global_factor
    /\ \A k \in DictKeys(committed.cache_factors) : OverrideSources(k)

\* C16 witness: a successful load whose file names no cache, in the
\* environment with the bare prefix, a variable that extends the prefix
\* without "_" and overrides for "a"; the caches "a" and "b" are registered
\* and "a" received a float the environment gives it.
C16_Witness ==
  /\ LoadSucceeded
  /\ FileItems = <<>>
  /\ DictHas(environ, _CACHE_PREFIX)
  /\ DictHas(environ, _CACHE_PREFIX \o <<"S", "_", "B">>)
  /\ DictKeys(_CACHES) = {<<"a">>, <<"b">>}
  /\ \E i \in CallsTo(<<"a">>) : calls[i].factor \in {PyFloat(70), PyFloat(80)}
  /\ \E i \in CallsTo(<<"b">>) : calls[i].factor = committed.global_factor

\* C18: every factor an operation passes to a resize callback is a number.
C18_FactorsAreNumbers ==
  \A i \in 1..Len(calls) : calls[i].factor.kind \in {"int", "float", "bool"}

\* ------------------------------------------------------------ two threads
\* add_resizable_cache(name, cb) on one thread and read_config(cfg) on another,
\* with nothing in the module to serialise them. Each step below is one line
\* of the source (line 49 is two: the read of the global, then the call); a
\* host that wraps both operations in one mutex (`lock`) lets no step of one
\* run while the other is between its first and its last step.
RaceConfigs ==
  { [global_factor |-> PyInt(2), per_cache_factors |-> Absent],
    [global_factor |-> Absent, per_cache_factors |-> PyDict(<< <<<<"A">>, PyInt(3)>> >>)],
    [global_factor |-> Absent, per_cache_factors |-> PyDict(<< <<<<"a">>, PyInt(4)>> >>)] }

InitRace == Imported /\ race = [NoRace EXCEPT !.phase = "setup"]

\* Before the threads start: at most one cache is registered and at most one
\* load has succeeded, in either order.
SetupRegister ==
  /\ race.phase = "setup"
  /\ _CACHES = <<>>
  /\ add_resizable_cache

SetupLoad ==
  /\ race.phase = "setup"
  /\ _ENSURE_CORRECT_CACHE_SIZING = "None"
  /\ \E cfg \in RaceConfigs : LoadStage(cfg) = "ok" /\ LoadSucceeds(cfg, FALSE)
  /\ UNCHANGED race

\* The two calls are made: add_resizable_cache(name, cb) and a read_config(cfg)
\* that will pass validation, on the CacheConfig whose closure is installed
\* (`same`) or on another one.
StartRace ==
  /\ race.phase = "setup"
  /\ \E reg \in Registrations, cfg \in RaceConfigs, lock \in BOOLEAN :
       \E same \in {s \in BOOLEAN : s => _ENSURE_CORRECT_CACHE_SIZING # "None"} :
         /\ LoadStage(cfg) = "ok"
         /\ race' = [NoRace EXCEPT !.phase = "running", !.name = reg[1], !.cb = reg[2],
                                   !.cfg = cfg, !.same = same, !.lock = lock,
                                   !.pcReg = "line47", !.pcLoad = "line77",
                                   !.before = IF _ENSURE_CORRECT_CACHE_SIZING # "None"
                                              THEN DictGet(self_cache_factors, Lower(reg[1]),
                                                           self_global_factor)
                                              ELSE Absent]
         /\ lastOp' = Op("concurrent", reg[1], reg[2], same, cfg, "", <<>>)
  /\ calls' = <<>>
  /\ UNCHANGED <<environ, DEFAULT_CACHE_SIZE_FACTOR, _CACHES, _ENSURE_CORRECT_CACHE_SIZING,
                 self_global_factor, self_cache_factors, committed>>

\* The host's mutex, when there is one.
RegMayStep == race.phase = "running" /\ (race.lock => race.pcLoad \in {"line77", "done"})
LoadMayStep == race.phase = "running" /\ (race.lock => race.pcReg \in {"line47", "done"})

\* Line 47: _CACHES[cache_name.lower()] = cache_resize_callback.
RegWrite ==
  /\ RegMayStep
  /\ race.pcReg = "line47"
  /\ _CACHES' = DictSet(_CACHES, Lower(race.name), race.cb)
  /\ race' = [race EXCEPT !.pcReg = "line48"]
  /\ UNCHANGED <<environ, DEFAULT_CACHE_SIZE_FACTOR, _ENSURE_CORRECT_CACHE_SIZING,
                 self_global_factor, self_cache_factors, calls, committed, lastOp>>

\* Line 48: if _ENSURE_CORRECT_CACHE_SIZING:
RegTest ==
  /\ RegMayStep
  /\ race.pcReg = "line48"
  /\ race' = [race EXCEPT !.pcReg = IF _ENSURE_CORRECT_CACHE_SIZING # "None"
                                     THEN "line49" ELSE "done"]
  /\ UNCHANGED <<environ, DEFAULT_CACHE_SIZE_FACTOR, _CACHES, _ENSURE_CORRECT_CACHE_SIZING,
                 self_global_factor, self_cache_factors, calls, committed, lastOp>>

\* Line 49, the read of the global: the function object found there is the
\* closure of the load's CacheConfig if the load runs on the installed one or
\* has installed its own; else it is the closure of another CacheConfig, whose
\* attributes nothing changes any more.
RegFetch ==
  /\ RegMayStep
  /\ race.pcReg = "line49"
  /\ race' = [race EXCEPT !.pcReg = "line49call",
                          !.fn = [ofLoad |-> race.same \/ race.pcLoad \in {"line116", "done"},
                                  global_factor |-> self_global_factor,
                                  cache_factors |-> self_cache_factors]]
  /\ UNCHANGED <<environ, DEFAULT_CACHE_SIZE_FACTOR, _CACHES, _ENSURE_CORRECT_CACHE_SIZING,
                 self_global_factor, self_cache_factors, calls, committed, lastOp>>

\* Line 49, the call of the function object that was fetched.
RegCall ==
  /\ RegMayStep
  /\ race.pcReg = "line49call"
  /\ calls' = calls \o
       (IF race.fn.ofLoad
        THEN ensure_cache_sizes(_CACHES, self_global_factor, self_cache_factors)
        ELSE ensure_cache_sizes(_CACHES, race.fn.global_factor, race.fn.cache_factors))
  /\ race' = [race EXCEPT !.pcReg = "done"]
  /\ UNCHANGED <<environ, DEFAULT_CACHE_SIZE_FACTOR, _CACHES, _ENSURE_CORRECT_CACHE_SIZING,
                 self_global_factor, self_cache_factors, committed, lastOp>>

\* Lines 77-107 of a load that passes validation: the attributes of the
\* load's CacheConfig, which are those the installed closure reads only when
\* the load runs on the installed CacheConfig.
LoadResolve ==
  /\ LoadMayStep
  /\ race.pcLoad = "line77"
  /\ DEFAULT_CACHE_SIZE_FACTOR' = ResolvedGlobalFactor(race.cfg)
  /\ self_global_factor' = SelfGlobalAfter(race.same, ResolvedGlobalFactor(race.cfg))
  /\ self_cache_factors' = SelfFactorsAfter(race.same, LoopResult(race.cfg).d)
  /\ race' = [race EXCEPT !.pcLoad = "line115",
                          !.global_factor = ResolvedGlobalFactor(race.cfg),
                          !.cache_factors = LoopResult(race.cfg).d]
  /\ UNCHANGED <<environ, _CACHES, _ENSURE_CORRECT_CACHE_SIZING, calls, committed, lastOp>>

\* read_config calling its closure at line 116 without the assignment of line 115.
LoadInstallSkipped ==
  /\ LoadMayStep
  /\ race.pcLoad = "line115"
  /\ race' = [race EXCEPT !.pcLoad = "line116"]
  /\ UNCHANGED <<environ, DEFAULT_CACHE_SIZE_FACTOR, _CACHES, _ENSURE_CORRECT_CACHE_SIZING,
                 self_global_factor, self_cache_factors, calls, committed, lastOp>>

\* Line 115: _ENSURE_CORRECT_CACHE_SIZING = ensure_cache_sizes; from here on
\* the installed closure reads the load's CacheConfig.
LoadInstall ==
  /\ LoadMayStep
  /\ race.pcLoad = "line115"
  /\ _ENSURE_CORRECT_CACHE_SIZING' = "ensure_cache_sizes"
  /\ self_global_factor' = race.global_factor
  /\ self_cache_factors' = race.cache_factors
  /\ race' = [race EXCEPT !.pcLoad = "line116"]
  /\ UNCHANGED <<environ, DEFAULT_CACHE_SIZE_FACTOR, _CACHES, calls, committed, lastOp>>

\* Line 116: the load calls its own closure, which iterates the registry.
LoadIterate ==
  /\ LoadMayStep
  /\ race.pcLoad = "line116"
  /\ calls' = calls \o ensure_cache_sizes(_CACHES, race.global_factor, race.cache_factors)
  /\ committed' = [loaded |-> TRUE, global_factor |-> race.global_factor,
                   cache_factors |-> race.cache_factors]
  /\ race' = [race EXCEPT !.pcLoad = "done"]
  /\ UNCHANGED <<environ, DEFAULT_CACHE_SIZE_FACTOR, _CACHES, _ENSURE_CORRECT_CACHE_SIZING,
                 self_global_factor, self_cache_factors, lastOp>>

NextRace ==
  \/ SetupRegister
  \/ SetupLoad
  \/ StartRace
  \/ RegWrite
  \/ RegTest
  \/ RegFetch
  \/ RegCall
  \/ LoadResolve
  \/ LoadInstall
  \/ LoadIterate

SpecRace == InitRace /\ [][NextRace]_vars

\* Both threads have returned.
RaceDone == race.phase = "running" /\ race.pcReg = "done" /\ race.pcLoad = "done"
\* The invocations of the callback the thread registered, in order.
Received == {i \in 1..Len(calls) : calls[i].name = Lower(race.name) /\ calls[i].cb = race.cb}
\* The last factor the callback received is the one the load gives its cache.
LastFactorIsTheLoads ==
  /\ Received # {}
  /\ \E i \in Received :
       /\ \A j \in Received : j <= i
       /\ calls[i].factor =
            EffectiveFactor(committed.global_factor, committed.cache_factors, Lower(race.name))

ReentrantRegistrations == { <<<<"x">>, "cbX">>, <<<<"b">>, "cb3">> }
ReentrantConfigs ==
  { [global_factor |-> PyInt(2), per_cache_factors |-> Absent],
    [global_factor |-> PyStr(4), per_cache_factors |-> Absent],
    [global_factor |-> Absent, per_cache_factors |-> PyList(3)],
    [global_factor |-> Absent, per_cache_factors |-> PyDict(<< <<<<"b">>, PyStr(1)>> >>)],
    [global_factor |-> Absent, per_cache_factors |-> PyDict(<< <<<<"a">>, PyInt(4)>> >>)] }

\* Lines 111-113 with the callbacks' own code: the for loop over
\* _CACHES.items() from its i-th item on. `size` is the length of the dict when
\* the iterator was made: the iterator raises RuntimeError ("dictionary changed
\* size during iteration") when asked for an item of a dict of another length.
\* A callback that registers runs line 47 and, a function being installed
\* whenever this loop runs, lines 48-49: the same loop, nested, from the start.
RECURSIVE IterateRegistry(_, _, _, _, _, _)
IterateRegistry(caches, i, size, log, global_factor, cache_factors) ==
  IF Len(caches) # size THEN [caches |-> caches, calls |-> log, error |-> "RuntimeError"]
  ELSE IF i > Len(caches) THEN [caches |-> caches, calls |-> log, error |-> ""]
  ELSE LET cache_name == caches[i][1]
           callback == caches[i][2]
           new_factor == DictGet(cache_factors, cache_name, global_factor)
           invoked == Append(log, [name |-> cache_name, cb |-> callback, factor |-> new_factor])
           registers == callback = "cbX" /\ ~DictHas(caches, Lower(<<"C">>))
           added == DictSet(caches, Lower(<<"C">>), "cb4")
           returned ==
             IF registers
             THEN IterateRegistry(added, 1, Len(added), invoked, global_factor, cache_factors)
             ELSE [caches |-> caches, calls |-> invoked, error |-> ""]
       IN IF returned.error # "" THEN returned
          ELSE IterateRegistry(returned.caches, i + 1, size, returned.calls,
                               global_factor, cache_factors)

\* ensure_cache_sizes()
RunRegistry(caches, global_factor, cache_factors) ==
  IterateRegistry(caches, 1, Len(caches), <<>>, global_factor, cache_factors)

ReentryNote(before, after, else) == IF Len(after) # Len(before) THEN "reentered" ELSE else

\* Lines 115-116 of a load that passed validation, with callbacks that may register.
LoadInstallsAndRuns(cfg, same) ==
  LET run == RunRegistry(_CACHES, ResolvedGlobalFactor(cfg), LoopResult(cfg).d) IN
  /\ self_global_factor' = ResolvedGlobalFactor(cfg)
  /\ DEFAULT_CACHE_SIZE_FACTOR' = ResolvedGlobalFactor(cfg)
  /\ self_cache_factors' = LoopResult(cfg).d
  /\ _ENSURE_CORRECT_CACHE_SIZING' = "ensure_cache_sizes"
  /\ _CACHES' = run.caches
  /\ calls' = run.calls
  /\ committed' = IF run.error = ""
                  THEN [loaded |-> TRUE, global_factor |-> self_global_factor',
                        cache_factors |-> self_cache_factors']
                  ELSE committed
  /\ lastOp' = [Op("load", <<>>, "", same, cfg, run.error, <<>>)
                  EXCEPT !.note = ReentryNote(_CACHES, run.caches, "")]
  /\ UNCHANGED environ

\* CacheConfig.read_config(config), with callbacks that may register.
read_config_reentrant ==
  \E cfg \in ReentrantConfigs :
    \E same \in {s \in BOOLEAN : s => _ENSURE_CORRECT_CACHE_SIZING # "None"} :
      LET stage == LoadStage(cfg) IN
      /\ \/ stage = "line81" /\ LoadFailsGlobalFactor(cfg, same)
         \/ stage = "line89" /\ LoadFailsEnviron(cfg, same)
         \/ stage = "line96" /\ LoadFailsShape(cfg, same)
         \/ stage = "line104" /\ LoadFailsFactor(cfg, same)
         \/ stage = "ok" /\ LoadInstallsAndRuns(cfg, same)
      /\ UNCHANGED race

\* add_resizable_cache, with callbacks that may register.
add_resizable_cache_reentrant ==
  \E reg \in ReentrantRegistrations :
    LET cache_name == reg[1]
        cache_resize_callback == reg[2]
        written == DictSet(_CACHES, Lower(cache_name), cache_resize_callback)
        run == IF _ENSURE_CORRECT_CACHE_SIZING # "None"
               THEN RunRegistry(written, self_global_factor, self_cache_factors)
               ELSE [caches |-> written, calls |-> <<>>, error |-> ""]
    IN
    /\ _CACHES' = run.caches
    /\ calls' = run.calls
    /\ lastOp' = [Op("register", cache_name, cache_resize_callback, FALSE, NoConfig,
                     run.error, <<>>)
                    EXCEPT !.note = ReentryNote(written, run.caches,
                                                DictGet(_CACHES, Lower(cache_name), ""))]
    /\ UNCHANGED <<environ, DEFAULT_CACHE_SIZE_FACTOR, _ENSURE_CORRECT_CACHE_SIZING,
                   self_global_factor, self_cache_factors, committed, race>>

NextReentrant == read_config_reentrant \/ add_resizable_cache_reentrant \/ reset

SpecReentrant == Init /\ [][NextReentrant]_vars

\* C19: a load or a registration during which a callback registered a cache
\* under a new name ends without error, and every cache of the registry, the
\* added one included, was invoked by it with its effective factor.
C19_ReentrantRegistrationCompletes ==
  (lastOp.op \in {"load", "register"} /\ lastOp.note = "reentered") =>
    /\ lastOp.error = ""
    /\ \A j \in 1..Len(_CACHES) :
         \E i \in 1..Len(calls) :
           /\ calls[i].name = _CACHES[j][1]
           /\ calls[i].cb = _CACHES[j][2]
           /\ calls[i].factor =
                EffectiveFactor(self_global_factor, self_cache_factors, _CACHES[j][1])

====
